---- MODULE Spec2Model ----
(***************************************************************************)
(* A model of the HTTP server of src/main.rs: one tokio task per accepted  *)
(* connection runs write_response, which reads one request into a 1024     *)
(* byte buffer, parses it with nom combinators, routes on the path and     *)
(* writes the response; /files/ requests go to handle_files.               *)
(*                                                                         *)
(* Byte strings are TLA+ strings, one character per byte.  Two bytes that  *)
(* a TLA+ string literal cannot hold are written with stand-ins that occur *)
(* nowhere else in the model: NUL is the zero byte the buffers are         *)
(* initialised with, BAD is a byte that is not valid UTF-8 (0xFF).         *)
(***************************************************************************)
EXTENDS Integers, Sequences, FiniteSets, TLC

\* ------------------------------------------------------------------ bounds
\* Size of the table of connections the listener can have accepted.
MaxConns == 2
\* Capacity, in bytes, of a connection's kernel send buffer.
SNDBUF == 4096
\* Worker threads of the runtime (one per core of the machine).
Workers == 1

\* ------------------------------------------------------- program constants
\* let mut buffer = [0; 1024] in read_request
READ_BUF == 1024
\* let mut buffer = [0; 1024] of the GET streaming loop
FILE_CHUNK == 1024
\* let mut buffer = [0; 1024] of the POST drain loop
DRAIN_BUF == 1024

NUL == "@"
BAD == "#"
CRLF == "\r\n"

\* ------------------------------------------------------------ byte strings
Min(S) == CHOOSE x \in S : \A y \in S : x <= y
MinOf(a, b) == IF a <= b THEN a ELSE b

Ch(s, i) == SubSeq(s, i, i)
Take(s, n) == SubSeq(s, 1, n)
Drop(s, n) == SubSeq(s, n + 1, Len(s))

RECURSIVE Rep(_, _)
\* n copies of s
Rep(s, n) ==
    IF n = 0 THEN ""
    ELSE LET h == Rep(s, n \div 2)
         IN  IF n % 2 = 0 THEN h \o h ELSE h \o h \o s

\* Whether s begins with the bytes p.
HasPrefix(s, p) == Len(s) >= Len(p) /\ Take(s, Len(p)) = p

\* Index of the first occurrence of pat in s, 0 when there is none.
Find(s, pat) ==
    LET hits == {i \in 1..(Len(s) - Len(pat) + 1) : SubSeq(s, i, i + Len(pat) - 1) = pat}
    IN  IF hits = {} THEN 0 ELSE Min(hits)

\* std::str::from_utf8(..).is_ok()
IsUtf8(s) == \A i \in 1..Len(s) : Ch(s, i) # BAD

RECURSIVE Dec(_)
\* format!("{}", n) of an unsigned integer
Dec(n) ==
    LET d == Ch("0123456789", (n % 10) + 1)
    IN  IF n < 10 THEN d ELSE Dec(n \div 10) \o d

\* ------------------------------------------------------------------ parser
\* A parser result is [st, rest, out]: st is "ok", "err" (nom's Err) or
\* "panic" (an unwrap of a failed from_utf8 inside the parser).
POk(rest, out) == [st |-> "ok", rest |-> rest, out |-> out]
PErr == [st |-> "err", rest |-> "", out |-> ""]
PPanic == [st |-> "panic", rest |-> "", out |-> ""]

\* nom::bytes::complete::tag
tag(t, input) ==
    IF HasPrefix(input, t) THEN POk(Drop(input, Len(t)), t) ELSE PErr

\* nom::bytes::complete::take_while(|c| c != stop): the longest prefix
\* without the byte stop, possibly empty; it never fails.
take_while_not(stop, input) ==
    LET hits == {i \in 1..Len(input) : Ch(input, i) = stop}
        n == IF hits = {} THEN Len(input) ELSE Min(hits) - 1
    IN  POk(Drop(input, n), Take(input, n))

space(input) == tag(" ", input)

method(input) ==
    LET g == tag("GET", input)
    IN  IF g.st = "ok" THEN g ELSE tag("POST", input)

path(input) == take_while_not(" ", input)

version(input) == tag("HTTP/1.1", input)

crlf(input) == tag(CRLF, input)

\* `let (input, x) = p(input)?; ...`: the result r of a parser, handed to
\* the rest of the function when it is Ok and returned as it is otherwise.
Then(r, Rest(_)) ==
    CHOOSE out \in {IF x.st = "ok" THEN Rest(x) ELSE x : x \in {r}} : TRUE

\* from_utf8(bytes).unwrap() on the way to the value built from the bytes.
Unwrap(bytes, result) == IF IsUtf8(bytes) THEN result ELSE PPanic

header(input) ==
    Then(take_while_not(":", input), LAMBDA name :
    Then(tag(": ", name.rest), LAMBDA sep :
    Then(take_while_not("\r", sep.rest), LAMBDA value :
    Then(crlf(value.rest), LAMBDA end :
    Unwrap(name.out, Unwrap(value.out,
        POk(end.rest, [name |-> name.out, value |-> value.out])))))))

RECURSIVE many_header(_, _)
\* The loop of nom's many1 after its first element: apply header until it
\* fails, and keep what was collected.
many_header(input, acc) ==
    CHOOSE out \in
        { IF h.st = "panic" THEN PPanic
          ELSE IF h.st = "err" THEN POk(input, acc)
          ELSE IF Len(h.rest) = Len(input) THEN PErr
          ELSE many_header(h.rest, Append(acc, h.out)) : h \in {header(input)} } : TRUE

\* many1(header)
headers(input) ==
    Then(header(input), LAMBDA h : many_header(h.rest, <<h.out>>))

\* match headers(input) { Ok(..) => <it>, Err(_) => (input, vec![]) }
headers_or_none(input) ==
    CHOOSE out \in
        {IF hs.st = "err" THEN POk(input, <<>>) ELSE hs : hs \in {headers(input)}} : TRUE

parse_request(input) ==
    Then(method(input), LAMBDA m :
    Then(space(m.rest), LAMBDA s1 :
    Then(path(s1.rest), LAMBDA p :
    Then(space(p.rest), LAMBDA s2 :
    Then(version(s2.rest), LAMBDA v :
    Then(crlf(v.rest), LAMBDA c1 :
    Then(headers_or_none(c1.rest), LAMBDA hs :
    Then(crlf(hs.rest), LAMBDA c2 :
    Unwrap(p.out,
        POk(c2.rest,
            [method |-> m.out, path |-> p.out, version |-> v.out,
             headers |-> hs.out, content |-> c2.rest]))))))))))

\* ---------------------------------------------------------------- responses
OK_ROOT_with_length == "HTTP/1.1 200 OK\r\nContent-Length: 0\r\n\r\n"
OK_ROOT == "HTTP/1.1 200 OK\r\n\r\n"
NOT_FOUND == "HTTP/1.1 404 NOT FOUND\r\n\r\n"
CREATED == "HTTP/1.1 201 CREATED\r\n\r\n"

None == [some |-> FALSE, v |-> ""]
Some(v) == [some |-> TRUE, v |-> v]

FindLast(s, pat) ==
    LET hits == {i \in 1..(Len(s) - Len(pat) + 1) : SubSeq(s, i, i + Len(pat) - 1) = pat}
    IN  IF hits = {} THEN 0 ELSE CHOOSE i \in hits : \A j \in hits : j <= i

splitn2_nth1_last(s, pat) ==
    LET i == FindLast(s, pat)
    IN  IF i = 0 THEN None ELSE Some(Drop(s, i + Len(pat) - 1))

\* s.splitn(2, pat).nth(1): what follows the first occurrence of pat in s.
splitn2_nth1(s, pat) ==
    LET i == Find(s, pat)
    IN  IF i = 0 THEN None ELSE Some(Drop(s, i + Len(pat) - 1))

UserAgentResponse_last(hs) ==
    LET hits == {i \in 1..Len(hs) : hs[i].name = "User-Agent"}
    IN  IF hits = {}
        THEN "HTTP/1.1 200 OK\r\nContent-Type: text/plain\r\nContent-Length: 0\r\n\r\n"
        ELSE LET value == hs[CHOOSE i \in hits : \A j \in hits : j <= i].value
             IN  "HTTP/1.1 200 OK\r\nContent-Type: text/plain\r\nContent-Length: "
                 \o Dec(Len(value)) \o "\r\n\r\n" \o value

\* The "/user-agent" arm: the default response, replaced by the one built
\* from the first header named User-Agent.
UserAgentResponse(hs) ==
    LET hits == {i \in 1..Len(hs) : hs[i].name = "User-Agent"}
    IN  IF hits = {}
        THEN "HTTP/1.1 200 OK\r\nContent-Type: text/plain\r\nContent-Length: 0\r\n\r\n"
        ELSE LET value == hs[Min(hits)].value
             IN  "HTTP/1.1 200 OK\r\nContent-Type: text/plain\r\nContent-Length: "
                 \o Dec(Len(value)) \o "\r\n\r\n" \o value

\* The format! of the "/echo/" arm.
EchoResponse(message) ==
    "HTTP/1.1 200 OK\r\nContent-Type: text/plain\r\nContent-Length: "
    \o Dec(Len(message)) \o "\r\n\r\n" \o message

\* The format! of the GET arm of handle_files.
FileHeader(n) ==
    "HTTP/1.1 200 OK\r\nContent-Type: application/octet-stream\r\nContent-Length: "
    \o Dec(n) \o "\r\n\r\n"

\* The match of write_response on request.path.  The result is either a
\* response to write or the file path handed to handle_files.
Reply(text) == [files |-> FALSE, text |-> text, file_path |-> ""]
ToFiles(p) == [files |-> TRUE, text |-> "", file_path |-> p]

\* The "/echo/" arm.
EchoArm(s) ==
    LET message == splitn2_nth1(s, "/echo/")
    IN  IF message.some THEN Reply(EchoResponse(message.v)) ELSE Reply(NOT_FOUND)

FilesArm_cwd(s, dir) ==
    LET f == splitn2_nth1(s, "/files/")
    IN  IF ~f.some THEN Reply(NOT_FOUND)
        ELSE ToFiles((IF dir.some THEN dir.v ELSE ".") \o "/" \o f.v)

\* The "/files/" arm, up to the call of handle_files.
FilesArm(s, dir) ==
    LET f == splitn2_nth1(s, "/files/")
    IN  IF ~dir.some THEN Reply(NOT_FOUND)
        ELSE IF ~f.some THEN Reply(NOT_FOUND)
        ELSE ToFiles(dir.v \o "/" \o f.v)

starts_with_contains(s, p) == Find(s, p) > 0

\* str::starts_with
starts_with(s, p) == HasPrefix(s, p)

Dispatch(req, dir) ==
    IF req.path = "/" THEN Reply(OK_ROOT)
    ELSE IF req.path = "/user-agent" THEN Reply(UserAgentResponse(req.headers))
    ELSE IF starts_with(req.path, "/echo/") THEN EchoArm(req.path)
    ELSE IF starts_with(req.path, "/files/") THEN FilesArm(req.path, dir)
    ELSE Reply(NOT_FOUND)

AfterRead_404(st) ==
    IF st = "ok" THEN [pc |-> "route", text |-> ""]
    ELSE IF st = "panic" THEN [pc |-> "panicked", text |-> ""]
    ELSE [pc |-> "done", text |-> "HTTP/1.1 404 NOT FOUND\r\n\r\n"]

\* The match of write_response on the result of read_request: the next
\* step of the task and the bytes it writes on the way there.
AfterRead(st) ==
    IF st = "ok" THEN [pc |-> "route", text |-> ""]
    ELSE IF st = "panic" THEN [pc |-> "panicked", text |-> ""]
    ELSE [pc |-> "done", text |-> ""]

\* main: the directory is the argument after "--directory", and only when
\* "--directory" is the first argument.
main_directory(argv) ==
    IF Len(argv) >= 2 /\ argv[2] = "--directory" THEN Some(argv[3]) ELSE None

\* ------------------------------------------------------------- file system
NoEntry == [kind |-> "none", data |-> ""]
Stat(files, p) == IF p \in DOMAIN files THEN files[p] ELSE NoEntry

\* std::fs::Metadata::len
MetadataLen(e) == IF e.kind = "dir" THEN 4096 ELSE Len(e.data)

\* A write of buf at offset pos; a gap left by a truncation reads as zeros.
WriteAt(data, pos, buf) ==
    LET gap == IF pos > Len(data) THEN Rep(NUL, pos - Len(data)) ELSE ""
    IN  Take(data, pos) \o gap \o buf \o Drop(data, pos + Len(buf))

\* ----------------------------------------------------------------- clients
BASE == "/tmp/data"

ArgLists ==
    { <<"server">>,
      <<"server", "--directory", BASE>>,
      <<"server", "--verbose", "--directory", BASE>> }

K1024 == Rep("a", 1023) \o "b"
K1025 == Rep("a", 1024) \o "b"
BIG == Rep("abcd", 1024) \o "tail"

InitFiles ==
    (BASE \o "/" :> [kind |-> "dir", data |-> ""])
    @@ (BASE \o "/foo.txt" :> [kind |-> "file", data |-> "hello"])
    @@ (BASE \o "/empty" :> [kind |-> "file", data |-> ""])
    @@ (BASE \o "/k1024" :> [kind |-> "file", data |-> K1024])
    @@ (BASE \o "/k1025" :> [kind |-> "file", data |-> K1025])
    @@ (BASE \o "/big" :> [kind |-> "file", data |-> BIG])

H(n, v) == [name |-> n, value |-> v]

RECURSIVE HeaderText(_)
HeaderText(hs) ==
    IF hs = <<>> THEN ""
    ELSE hs[1].name \o ": " \o hs[1].value \o CRLF \o HeaderText(Tail(hs))

\* What a client sends: a message of the form
\*   <method> <path> HTTP/1.1 CRLF <headers> CRLF <body>
\* (wf) or arbitrary bytes (raw); cut > 0 sends it as two segments, the first
\* of cut bytes; fin says whether the client then closes its sending side.
Msg(m, p, hs, b) ==
    [wf |-> TRUE, method |-> m, path |-> p, hdrs |-> hs, body |-> b,
     wire |-> m \o " " \o p \o " HTTP/1.1" \o CRLF \o HeaderText(hs) \o CRLF \o b]
Raw(w) ==
    [wf |-> FALSE, method |-> "", path |-> "", hdrs |-> <<>>, body |-> "", wire |-> w]
Client(msg, cut, fin) ==
    [present |-> TRUE, msg |-> msg, cut |-> cut, fin |-> fin]
NoClient == [present |-> FALSE, msg |-> Raw(""), cut |-> 0, fin |-> FALSE]

Segments(cl) ==
    IF cl.msg.wire = "" THEN <<>>
    ELSE IF cl.cut = 0 THEN <<cl.msg.wire>>
    ELSE <<Take(cl.msg.wire, cl.cut), Drop(cl.msg.wire, cl.cut)>>

EchoStrings == {"abc", "", "a/echo/b", "a b", "a:b", Rep("x", 1000), Rep("y", 1100)}

AgentHeaders ==
    { <<>>,
      <<H("User-Agent", "test-client/1.0")>>,
      <<H("Host", "localhost:4221"), H("User-Agent", "x"), H("User-Agent", "yy")>>,
      <<H("user-agent", "low")>>,
      <<H("user-agent", "low"), H("User-Agent", "curl/8"), H("Accept", "*/*")>>,
      <<H("USER-AGENT", "up")>> }

OtherPaths == {"/nope", "/echo", "/files", "/user-agent/", "/Echo/x", "/api/echo/x"}
Methods == {"GET", "POST", "DELETE"}
FileNames == {"foo.txt", "missing", "empty", "k1024", "k1025", "big", ""}

Messages ==
    {Msg(m, "/", <<>>, "") : m \in {"GET", "POST"}}
    \cup {Msg("GET", "/echo/" \o s, <<>>, "") : s \in EchoStrings}
    \cup {Msg("GET", "/user-agent", hs, "") : hs \in AgentHeaders}
    \cup {Msg(m, p, <<>>, "") : m \in Methods, p \in OtherPaths}
    \cup {Msg("GET", "/files/" \o f, <<>>, "") : f \in FileNames}
    \cup {Msg("DELETE", "/files/foo.txt", <<>>, "")}
    \cup {Msg("POST", "/files/" \o f, <<H("Content-Length", Dec(Len(b)))>>, b) :
            f \in {"bar.txt", "foo.txt", ""}, b \in {"hello", ""}}
    \cup {Msg("POST", "/files/bar.txt", <<>>, Rep("z", 1500))}
    \cup {Msg("POST", "/files/bar.txt", <<>>, b) :
            b \in {"key: value\r\nmore", "a: b\r\n\r\nrest", "plain text"}}
    \cup {Msg("POST", "/files/bar.txt", <<H("Content-Length", "9")>>, "k: v\r\n\r\nz")}
    \cup {Msg("GET", "/user-agent", <<H("User-Agent", "a#b")>>, ""),
          Msg("GET", "/", <<H("X#Y", "v")>>, ""),
          Msg("GET", "/no#pe", <<>>, "")}
    \cup {Msg("GET", "/", <<>>, "GET /echo/second HTTP/1.1\r\n\r\n")}
    \cup {Raw(w) : w \in
            { "", "GET /", "GET / HTTP/1.0\r\n\r\n", "GET / HTTP/1.1\r\n",
              "GET/ HTTP/1.1\r\n\r\n", "get / HTTP/1.1\r\n\r\n", "GET / HTTP/1.1\n\n",
              "GET  HTTP/1.1\r\n\r\n", "GET foo HTTP/1.1\r\n\r\n",
              "GET /user-agent HTTP/1.1\r\nUser-Agent:x\r\n\r\n",
              "GET /echo/a#b HTTP/1.1\r\n\r\n" }}

\* Every message in one segment, and some of them cut in two.
Clients ==
    {Client(msg, 0, fin) : msg \in Messages, fin \in BOOLEAN}
    \cup {Client(Msg("GET", "/echo/abc", <<>>, ""), 16, TRUE),
          Client(Msg("POST", "/files/bar.txt", <<H("Content-Length", "5")>>, "hello"), 51, TRUE),
          Client(Msg("POST", "/files/bar.txt", <<H("Content-Length", "5")>>, "hello"), 53, FALSE),
          Client(Msg("GET", "/", <<>>, "GET /echo/second HTTP/1.1\r\n\r\n"), 18, TRUE)}

\* ------------------------------------------------------------------- state
Conns == 1..MaxConns

VARIABLES
    directory,       \* main's directory: Option<String>
    fs,              \* the file system: path -> [kind, data]
    client,          \* what the peer of each connection does (the input)
    tosend,          \* segments the peer has not sent yet
    inbuf,           \* bytes received on the socket and not read yet
    eof,             \* the peer closed its sending side
    reset,           \* the peer reset the connection
    unacked,         \* bytes in the send buffer the peer has not taken yet
    sock_out,        \* bytes the socket accepted, in order
    wlog,            \* bytes handed to socket writes, in order
    pc,              \* where the connection's task is
    nread,           \* bytes the read of read_request put into its buffer
    read_result,     \* "none", or the outcome of read_request
    request,         \* the Request
    wbuf,            \* the bytes of the socket write the task is at
    ret,             \* where the task goes after that write
    file,            \* handle_files' file: its path and position
    content_length,  \* handle_files' content_length
    fbuf,            \* the bytes of the file write the task is at
    try_result,      \* the outcome of the drain loop's last try_read
    file_error       \* a file.write of the task failed (its result is dropped)

peerVars == <<client, tosend, inbuf, eof, reset, unacked>>
vars == <<directory, fs, client, tosend, inbuf, eof, reset, unacked, sock_out, wlog,
          pc, nread, read_result, request, wbuf, ret, file, content_length, fbuf,
          try_result, file_error>>

NoRequest == [method |-> "", path |-> "", version |-> "", headers |-> <<>>, content |-> ""]
NoFile == [path |-> "", pos |-> 0]

InitWith(cls) ==
    /\ \E argv \in ArgLists : directory = main_directory(argv)
    /\ fs = InitFiles
    /\ client = cls
    /\ tosend = [c \in Conns |-> Segments(cls[c])]
    /\ inbuf = [c \in Conns |-> ""]
    /\ eof = [c \in Conns |-> FALSE]
    /\ reset = [c \in Conns |-> FALSE]
    /\ unacked = [c \in Conns |-> 0]
    /\ sock_out = [c \in Conns |-> ""]
    /\ wlog = [c \in Conns |-> ""]
    /\ pc = [c \in Conns |-> "idle"]
    /\ nread = [c \in Conns |-> 0]
    /\ read_result = [c \in Conns |-> "none"]
    /\ request = [c \in Conns |-> NoRequest]
    /\ wbuf = [c \in Conns |-> ""]
    /\ ret = [c \in Conns |-> ""]
    /\ file = [c \in Conns |-> NoFile]
    /\ content_length = [c \in Conns |-> 0]
    /\ fbuf = [c \in Conns |-> ""]
    /\ try_result = [c \in Conns |-> "none"]
    /\ file_error = [c \in Conns |-> FALSE]

\* One client connects.
Init ==
    \E cl \in Clients : InitWith([c \in Conns |-> IF c = 1 THEN cl ELSE NoClient])

\* Two clients connect; both work on the same file.
ConcClients ==
    { Client(Msg("GET", "/files/foo.txt", <<>>, ""), 0, TRUE),
      Client(Msg("POST", "/files/foo.txt", <<H("Content-Length", "2")>>, "hi"), 0, TRUE),
      Client(Msg("POST", "/files/foo.txt", <<>>, "hello, world"), 0, TRUE) }

InitConc ==
    \E c1 \in ConcClients, c2 \in ConcClients :
        /\ InitWith([c \in Conns |-> IF c = 1 THEN c1 ELSE IF c = 2 THEN c2 ELSE NoClient])
        /\ directory.some

\* POST clients that send their request and then stay connected without
\* sending more or closing occupy the first connections, as many as the
\* runtime has worker threads; the next connection is a client with a
\* complete request.
StalledClient ==
    Client(Msg("POST", "/files/bar.txt", <<H("Content-Length", "5")>>, "hello"), 0, FALSE)

OtherClients ==
    { Client(Msg("GET", "/", <<>>, ""), 0, TRUE),
      Client(Msg("GET", "/files/foo.txt", <<>>, ""), 0, TRUE),
      Client(Msg("POST", "/files/foo.txt", <<>>, "hello, world"), 0, TRUE) }

InitStall ==
    \E cl \in OtherClients :
        /\ InitWith([c \in Conns |-> IF c <= Workers THEN StalledClient
                                     ELSE IF c = Workers + 1 THEN cl ELSE NoClient])
        /\ directory.some

\* -------------------------------------------------------------------- peer
\* The next segment of the client's bytes arrives.
PeerSend(c) ==
    /\ tosend[c] # <<>>
    /\ ~reset[c]
    /\ inbuf' = [inbuf EXCEPT ![c] = @ \o Head(tosend[c])]
    /\ tosend' = [tosend EXCEPT ![c] = Tail(@)]
    /\ UNCHANGED <<directory, fs, client, eof, reset, unacked, sock_out, wlog, pc, nread,
                   read_result, request, wbuf, ret, file, content_length, fbuf, try_result, file_error>>

\* The client, having sent everything, closes its sending side.
PeerShutdown(c) ==
    /\ client[c].present /\ client[c].fin
    /\ tosend[c] = <<>>
    /\ ~eof[c] /\ ~reset[c]
    /\ eof' = [eof EXCEPT ![c] = TRUE]
    /\ UNCHANGED <<directory, fs, client, tosend, inbuf, reset, unacked, sock_out, wlog, pc,
                   nread, read_result, request, wbuf, ret, file, content_length, fbuf,
                   try_result, file_error>>

\* The client resets the connection while the task is still running.
PeerReset(c) ==
    /\ client[c].present
    /\ ~reset[c]
    /\ pc[c] \notin {"done", "panicked"}
    /\ reset' = [reset EXCEPT ![c] = TRUE]
    /\ inbuf' = [inbuf EXCEPT ![c] = ""]
    /\ UNCHANGED <<directory, fs, client, tosend, eof, unacked, sock_out, wlog, pc, nread,
                   read_result, request, wbuf, ret, file, content_length, fbuf, try_result, file_error>>

\* The client takes what is in the send buffer.
PeerRecv(c) ==
    /\ unacked[c] > 0
    /\ ~reset[c]
    /\ unacked' = [unacked EXCEPT ![c] = 0]
    /\ UNCHANGED <<directory, fs, client, tosend, inbuf, eof, reset, sock_out, wlog, pc,
                   nread, read_result, request, wbuf, ret, file, content_length, fbuf,
                   try_result, file_error>>

\* ------------------------------------------------------------------ server
\* The task of connection c is in a turn of the drain loop that has no
\* await: try_read did not return Ok, the arm is empty and the loop goes
\* straight to the next try_read.  The task keeps its worker thread.
Spinning(c) == pc[c] = "drain" /\ try_result[c] \in {"WouldBlock", "Err"}

\* The runtime of #[tokio::main] polls spawned tasks on its worker threads:
\* the task of connection c is polled when a thread is not kept by another
\* task.
CanRun(c) == Cardinality({o \in Conns \ {c} : Spinning(o)}) < Workers

\* main's loop: accept the connection and spawn write_response on it.
Accept(c) ==
    /\ pc[c] = "idle"
    /\ client[c].present
    /\ pc' = [pc EXCEPT ![c] = "read"]
    /\ UNCHANGED <<directory, fs, peerVars, sock_out, wlog, nread, read_result, request,
                   wbuf, ret, file, content_length, fbuf, try_result, file_error>>

\* The task is at a socket write of text and goes to `then` after it.
StartWrite(c, text, then) ==
    /\ pc' = [pc EXCEPT ![c] = "write"]
    /\ wbuf' = [wbuf EXCEPT ![c] = text]
    /\ ret' = [ret EXCEPT ![c] = then]

\* How many of the n bytes of one socket write the socket accepts: none on a
\* reset connection (the write fails), otherwise what the send buffer has
\* room for.  The caller waits while there is no room at all.
Accepted(c, n) ==
    IF reset[c] THEN 0 ELSE MinOf(n, SNDBUF - unacked[c])

\* let _ = socket.write(bytes).await: one write, its result dropped.
Write(c) ==
    /\ pc[c] = "write"
    /\ CanRun(c)
    /\ reset[c] \/ wbuf[c] = "" \/ unacked[c] < SNDBUF
    /\ LET n == Accepted(c, Len(wbuf[c]))
       IN  /\ sock_out' = [sock_out EXCEPT ![c] = @ \o Take(wbuf[c], n)]
           /\ unacked' = [unacked EXCEPT ![c] = @ + n]
    /\ wlog' = [wlog EXCEPT ![c] = @ \o wbuf[c]]
    /\ pc' = [pc EXCEPT ![c] = ret[c]]
    /\ wbuf' = [wbuf EXCEPT ![c] = ""]
    /\ UNCHANGED <<directory, fs, client, tosend, inbuf, eof, reset, nread, read_result,
                   request, ret, file, content_length, fbuf, try_result, file_error>>

\* The buffer of read_request after its one read: the n bytes read, then
\* the zeros the buffer was initialised with.
ReadBuffer(c, n) == Take(inbuf[c], n) \o Rep(NUL, READ_BUF - n)

\* read_request and the match on its result in write_response.  The read
\* waits until bytes, the end of the stream or a reset is there; a failed
\* read leaves the buffer as it was.
ReadRequest(c) ==
    /\ pc[c] = "read"
    /\ CanRun(c)
    /\ reset[c] \/ inbuf[c] # "" \/ eof[c]
    /\ \E n \in {IF reset[c] THEN 0 ELSE MinOf(READ_BUF, Len(inbuf[c]))} :
       \E r \in {parse_request(ReadBuffer(c, n))} :
       \E a \in {AfterRead(r.st)} :
           /\ nread' = [nread EXCEPT ![c] = n]
           /\ inbuf' = [inbuf EXCEPT ![c] = Drop(@, n)]
           /\ read_result' = [read_result EXCEPT ![c] = r.st]
           /\ request' = [request EXCEPT ![c] = IF r.st = "ok" THEN r.out ELSE NoRequest]
           /\ IF a.text = ""
              THEN /\ pc' = [pc EXCEPT ![c] = a.pc]
                   /\ UNCHANGED <<wbuf, ret>>
              ELSE StartWrite(c, a.text, a.pc)
    /\ UNCHANGED <<directory, fs, client, tosend, eof, reset, unacked, sock_out, wlog,
                   file, content_length, fbuf, try_result, file_error>>

\* A match that takes the POST arm for GET as well.
MethodArm_create(m) ==
    IF m \in {"GET", "POST"} THEN "post_create" ELSE "other"

\* The match of handle_files on request.method.
MethodArm(m) ==
    IF m = "GET" THEN "get_metadata" ELSE IF m = "POST" THEN "post_create" ELSE "other"

\* The match on request.path, up to the first await of the arm taken.
Route(c) ==
    /\ pc[c] = "route"
    /\ CanRun(c)
    /\ LET d == Dispatch(request[c], directory)
           arm == MethodArm(request[c].method)
       IN  IF d.files /\ arm # "other"
           THEN /\ pc' = [pc EXCEPT ![c] = arm]
                /\ file' = [file EXCEPT ![c] = [path |-> d.file_path, pos |-> 0]]
                /\ UNCHANGED <<wbuf, ret>>
           ELSE /\ StartWrite(c, IF d.files THEN NOT_FOUND ELSE d.text, "done")
                /\ UNCHANGED file
    /\ UNCHANGED <<directory, fs, peerVars, sock_out, wlog, nread, read_result, request,
                   content_length, fbuf, try_result, file_error>>

\* GET: tokio::fs::metadata(file_path)
GetMetadata(c) ==
    /\ pc[c] = "get_metadata"
    /\ CanRun(c)
    /\ LET e == Stat(fs, file[c].path)
       IN  IF e.kind = "none"
           THEN /\ StartWrite(c, NOT_FOUND, "done")
                /\ UNCHANGED content_length
           ELSE /\ content_length' = [content_length EXCEPT ![c] = MetadataLen(e)]
                /\ pc' = [pc EXCEPT ![c] = "get_open"]
                /\ UNCHANGED <<wbuf, ret>>
    /\ UNCHANGED <<directory, fs, peerVars, sock_out, wlog, nread, read_result, request,
                   file, fbuf, try_result, file_error>>

\* GET: File::open(file_path), then the write of the 200 header block.
GetOpen(c) ==
    /\ pc[c] = "get_open"
    /\ CanRun(c)
    /\ IF Stat(fs, file[c].path).kind = "none"
       THEN StartWrite(c, NOT_FOUND, "done")
       ELSE StartWrite(c, FileHeader(content_length[c]), "get_read")
    /\ UNCHANGED <<directory, fs, peerVars, sock_out, wlog, nread, read_result, request,
                   file, content_length, fbuf, try_result, file_error>>

\* The bytes one file.read(&mut buffer) returns at position pos.
FileRead(data, pos) == SubSeq(data, pos + 1, MinOf(Len(data), pos + FILE_CHUNK))

\* GET: one turn of the streaming loop, up to the socket write of the chunk.
\* Reading a directory fails.
GetRead(c) ==
    /\ pc[c] = "get_read"
    /\ CanRun(c)
    /\ LET e == Stat(fs, file[c].path)
           chunk == FileRead(e.data, file[c].pos)
       IN  IF e.kind = "dir"
           THEN /\ StartWrite(c, NOT_FOUND, "done")
                /\ UNCHANGED file
           ELSE IF chunk = ""
           THEN /\ pc' = [pc EXCEPT ![c] = "done"]
                /\ UNCHANGED <<wbuf, ret, file>>
           ELSE /\ StartWrite(c, chunk, "get_read")
                /\ file' = [file EXCEPT ![c].pos = @ + Len(chunk)]
    /\ UNCHANGED <<directory, fs, peerVars, sock_out, wlog, nread, read_result, request,
                   content_length, fbuf, try_result, file_error>>

\* POST: File::create(file_path).  Creating a directory's path fails.
PostCreate(c) ==
    /\ pc[c] = "post_create"
    /\ CanRun(c)
    /\ IF Stat(fs, file[c].path).kind = "dir"
       THEN /\ StartWrite(c, NOT_FOUND, "done")
            /\ UNCHANGED <<fs, fbuf>>
       ELSE /\ fs' = (file[c].path :> [kind |-> "file", data |-> ""]) @@ fs
            /\ fbuf' = [fbuf EXCEPT ![c] = request[c].content]
            /\ pc' = [pc EXCEPT ![c] = "post_write"]
            /\ UNCHANGED <<wbuf, ret>>
    /\ UNCHANGED <<directory, peerVars, sock_out, wlog, nread, read_result, request,
                   file, content_length, try_result, file_error>>

\* POST: let _ = file.write(bytes).await, of the request's content first and
\* of each drained chunk later.  The write succeeds or fails (a full disk, an
\* I/O error); the code drops its result either way.
PostWrite(c) ==
    /\ pc[c] = "post_write"
    /\ CanRun(c)
    /\ \E ok \in BOOLEAN :
        IF ok
        THEN /\ fs' = [fs EXCEPT ![file[c].path].data = WriteAt(@, file[c].pos, fbuf[c])]
             /\ file' = [file EXCEPT ![c].pos = @ + Len(fbuf[c])]
             /\ UNCHANGED file_error
        ELSE /\ file_error' = [file_error EXCEPT ![c] = TRUE]
             /\ UNCHANGED <<fs, file>>
    /\ fbuf' = [fbuf EXCEPT ![c] = ""]
    /\ pc' = [pc EXCEPT ![c] = "drain"]
    /\ UNCHANGED <<directory, peerVars, sock_out, wlog, nread, read_result, request,
                   wbuf, ret, content_length, try_result>>

\* The outcome of socket.try_read(&mut buffer).
TryRead(c) ==
    IF reset[c] THEN "Err"
    ELSE IF inbuf[c] # "" THEN "OkN"
    ELSE IF eof[c] THEN "Ok0"
    ELSE "WouldBlock"

\* A drain loop that leaves at the first outcome without bytes.
DrainArm_no_wait(r) ==
    IF r = "OkN" THEN "write" ELSE "break"

\* What the drain loop does with the outcome of try_read: "break",
\* "write" (append the bytes to the file) or "again" (the next turn).
DrainArm(r) ==
    IF r = "Ok0" THEN "break" ELSE IF r = "OkN" THEN "write" ELSE "again"

\* POST: one turn of the drain loop.
Drain(c) ==
    /\ pc[c] = "drain"
    /\ CanRun(c)
    /\ LET r == TryRead(c)
           n == MinOf(DRAIN_BUF, Len(inbuf[c]))
       IN  /\ try_result' = [try_result EXCEPT ![c] = r]
           /\ CASE DrainArm(r) = "break" ->
                    /\ StartWrite(c, CREATED, "done")
                    /\ UNCHANGED <<inbuf, fbuf>>
                [] DrainArm(r) = "write" ->
                    /\ fbuf' = [fbuf EXCEPT ![c] = Take(inbuf[c], n)]
                    /\ inbuf' = [inbuf EXCEPT ![c] = Drop(@, n)]
                    /\ pc' = [pc EXCEPT ![c] = "post_write"]
                    /\ UNCHANGED <<wbuf, ret>>
                [] OTHER ->
                    UNCHANGED <<pc, wbuf, ret, inbuf, fbuf>>
    /\ UNCHANGED <<directory, fs, client, tosend, eof, reset, unacked, sock_out, wlog,
                   nread, read_result, request, file, content_length, file_error>>

Next ==
    \E c \in Conns :
        \/ PeerSend(c)
        \/ PeerShutdown(c)
        \/ PeerReset(c)
        \/ PeerRecv(c)
        \/ Accept(c)
        \/ ReadRequest(c)
        \/ Route(c)
        \/ Write(c)
        \/ GetMetadata(c)
        \/ GetOpen(c)
        \/ GetRead(c)
        \/ PostCreate(c)
        \/ PostWrite(c)
        \/ Drain(c)

\* The steps of the task of connection c.
Task(c) ==
    \/ ReadRequest(c)
    \/ Route(c)
    \/ Write(c)
    \/ GetMetadata(c)
    \/ GetOpen(c)
    \/ GetRead(c)
    \/ PostCreate(c)
    \/ PostWrite(c)
    \/ Drain(c)

Spec == Init /\ [][Next]_vars
SpecConc == InitConc /\ [][Next]_vars
\* The runtime polls every task that can run, and main accepts every
\* connection; the clients are not obliged to do anything.
SpecStall ==
    InitStall /\ [][Next]_vars /\ \A c \in Conns : WF_vars(Task(c)) /\ WF_vars(Accept(c))

\* ------------------------------------------------------------------ claims
\* The message the client of connection c sends.
Sent(c) == client[c].msg

\* The one read of read_request took every byte the client sends.
WholeInFirstRead(c) ==
    /\ client[c].present
    /\ read_result[c] # "none"
    /\ nread[c] = Len(Sent(c).wire)

\* The task of connection c has ended and the client never reset.
Served(c) == pc[c] = "done" /\ ~reset[c]

\* A well-formed message with method GET or POST, read whole.
Parsable(c) ==
    /\ WholeInFirstRead(c)
    /\ Sent(c).wf
    /\ Sent(c).method \in {"GET", "POST"}

HasChar(s, ch) == \E i \in 1..Len(s) : Ch(s, i) = ch

\* The body of a response: what follows its first blank line.
BodyOf(resp) == Drop(resp, Find(resp, "\r\n\r\n") + 3)

RECURSIVE ParseDec(_)
ParseDec(digits) ==
    IF digits = "" THEN 0
    ELSE 10 * ParseDec(Take(digits, Len(digits) - 1))
         + (Find("0123456789", Ch(digits, Len(digits))) - 1)

\* The Content-Length a response declares.
DeclaredLength(resp) ==
    LET from == Drop(resp, Find(resp, "Content-Length: ") + 15)
    IN  ParseDec(Take(from, Find(from, "\r") - 1))

\* A response that is a status line and the blank line, nothing else.
StatusLineOnly(resp) ==
    /\ Find(resp, "\r\n") > 0
    /\ Find(resp, "\r\n") = Find(resp, "\r\n\r\n")
    /\ Len(resp) = Find(resp, "\r\n") + 3

\* The file a POST /files/<name> or GET /files/<name> of connection c names.
NamedFile(c) == directory.v \o "/" \o Drop(Sent(c).path, 7)

FilesCase(c, m) ==
    /\ directory.some
    /\ WholeInFirstRead(c)
    /\ Sent(c).wf
    /\ Sent(c).method = m
    /\ HasPrefix(Sent(c).path, "/files/")
    /\ Len(Sent(c).path) > 7

\* C1 (as claimed): after a POST /files/<name> that arrived whole in the first
\* read and whose file writes all succeeded, the response is 201 CREATED and
\* the file holds exactly the body B.
CE_C1 ==
    \A c \in Conns :
        (Served(c) /\ FilesCase(c, "POST") /\ ~file_error[c]) =>
            /\ sock_out[c] = "HTTP/1.1 201 CREATED\r\n\r\n"
            /\ Stat(fs, NamedFile(c)) = [kind |-> "file", data |-> Sent(c).body]

\* C2 (as claimed): GET /files/<name> of an unmodified file holding B puts on
\* the connection the 200 header block with Content-Length len(B) and then
\* exactly the bytes B, for every length of B.
CE_C2 ==
    \A c \in Conns :
        (/\ Served(c)
         /\ FilesCase(c, "GET")
         /\ Stat(InitFiles, NamedFile(c)).kind = "file"
         /\ Stat(fs, NamedFile(c)) = Stat(InitFiles, NamedFile(c))) =>
            sock_out[c] =
                "HTTP/1.1 200 OK\r\nContent-Type: application/octet-stream\r\nContent-Length: "
                \o Dec(Len(Stat(InitFiles, NamedFile(c)).data)) \o "\r\n\r\n"
                \o Stat(InitFiles, NamedFile(c)).data

\* The request GET /echo/<s> HTTP/1.1 CRLF CRLF, within the read window.
EchoCase(c) ==
    /\ WholeInFirstRead(c)
    /\ Sent(c).wf
    /\ Sent(c).method = "GET"
    /\ HasPrefix(Sent(c).path, "/echo/")
    /\ Sent(c).hdrs = <<>> /\ Sent(c).body = ""
    /\ Len(Sent(c).wire) <= READ_BUF

EchoString(c) == Drop(Sent(c).path, 6)

EchoExpected(s) ==
    "HTTP/1.1 200 OK\r\nContent-Type: text/plain\r\nContent-Length: "
    \o Dec(Len(s)) \o "\r\n\r\n" \o s

\* C3 (as claimed): for every s without CR, GET /echo/<s> yields the 200
\* response with Content-Length len(s) and body s.
CE_C3 ==
    \A c \in Conns :
        (Served(c) /\ EchoCase(c) /\ ~HasChar(EchoString(c), "\r")) =>
            sock_out[c] = EchoExpected(EchoString(c))

\* C3 (amended): for every s without CR and without a space, GET /echo/<s>
\* yields the 200 response with Content-Type text/plain, Content-Length
\* len(s) and body s; for s = "abc" it is the response of the spec's example.
THM_C3 ==
    \A c \in Conns :
        (/\ Served(c) /\ EchoCase(c)
         /\ ~HasChar(EchoString(c), "\r") /\ ~HasChar(EchoString(c), " ")) =>
            /\ sock_out[c] = EchoExpected(EchoString(c))
            /\ wlog[c] = sock_out[c]
            /\ EchoString(c) = "abc" =>
                 sock_out[c] =
                   "HTTP/1.1 200 OK\r\nContent-Type: text/plain\r\nContent-Length: 3\r\n\r\nabc"

\* An echo of a string that holds "/echo/" itself has been served.
W_C3 ==
    \E c \in Conns :
        /\ Served(c) /\ EchoCase(c)
        /\ EchoString(c) = "a/echo/b"
        /\ sock_out[c] = EchoExpected("a/echo/b")

RECURSIVE FirstAgent(_)
\* The value of the first header named User-Agent, in wire order.
FirstAgent(hs) ==
    IF hs = <<>> THEN None
    ELSE IF hs[1].name = "User-Agent" THEN Some(hs[1].value)
    ELSE FirstAgent(Tail(hs))

AgentCase(c) == Parsable(c) /\ Sent(c).path = "/user-agent"

\* C4: the response to /user-agent carries the value of the first header
\* named exactly User-Agent, with its length as Content-Length; without such
\* a header it is the 200 response with Content-Length: 0 and no body.
THM_C4 ==
    \A c \in Conns :
        (Served(c) /\ AgentCase(c)) =>
            /\ wlog[c] = sock_out[c]
            /\ LET ua == FirstAgent(Sent(c).hdrs)
               IN  sock_out[c] =
                     "HTTP/1.1 200 OK\r\nContent-Type: text/plain\r\nContent-Length: "
                     \o Dec(Len(ua.v)) \o "\r\n\r\n" \o ua.v
            /\ ~FirstAgent(Sent(c).hdrs).some =>
                 sock_out[c] =
                   "HTTP/1.1 200 OK\r\nContent-Type: text/plain\r\nContent-Length: 0\r\n\r\n"

\* A request with a lower-case user-agent header before the User-Agent one,
\* and one with two User-Agent headers, have been served.
W_C4 ==
    \E c \in Conns :
        /\ Served(c) /\ AgentCase(c)
        /\ Len(Sent(c).hdrs) = 3
        /\ Sent(c).hdrs[2].name = "User-Agent"
        /\ Sent(c).hdrs[3].name = "User-Agent"
        /\ BodyOf(sock_out[c]) = "x"

UnknownPath(p) ==
    /\ p # "/" /\ p # "/user-agent"
    /\ ~HasPrefix(p, "/echo/") /\ ~HasPrefix(p, "/files/")

\* C5 (as claimed): a request to an unknown path gets exactly the 404
\* response, whatever its method token is.
CE_C5 ==
    \A c \in Conns :
        (Served(c) /\ WholeInFirstRead(c) /\ Sent(c).wf /\ UnknownPath(Sent(c).path)) =>
            sock_out[c] = "HTTP/1.1 404 NOT FOUND\r\n\r\n"

\* C5 (amended): a GET or POST request to an unknown path gets exactly the
\* 404 response; a request with another method token gets no response.
THM_C5 ==
    \A c \in Conns :
        (Served(c) /\ WholeInFirstRead(c) /\ Sent(c).wf /\ UnknownPath(Sent(c).path)) =>
            IF Sent(c).method \in {"GET", "POST"}
            THEN /\ sock_out[c] = "HTTP/1.1 404 NOT FOUND\r\n\r\n"
                 /\ wlog[c] = sock_out[c]
            ELSE wlog[c] = ""

\* A POST to a path that holds "/echo/" but does not start with it has been
\* answered.
W_C5 ==
    \E c \in Conns :
        /\ Served(c) /\ Parsable(c)
        /\ Sent(c).method = "POST"
        /\ Sent(c).path = "/api/echo/x"
        /\ sock_out[c] # ""

THM_C7 ==
    \A c \in Conns :
        read_result[c] \in {"err", "panic"} =>
            /\ pc[c] \in {"done", "panicked"}
            /\ wlog[c] = ""
            /\ sock_out[c] = ""

\* A request whose version is not HTTP/1.1 was read whole and its task has
\* ended.
W_C7 ==
    \E c \in Conns :
        /\ pc[c] = "done"
        /\ read_result[c] = "err"
        /\ WholeInFirstRead(c)
        /\ Sent(c).wire = "GET / HTTP/1.0\r\n\r\n"

\* C8 (as claimed): when no file read failed, the body bytes of a response
\* that declares a Content-Length are as many as it declares, also when
\* another connection rewrites the file while it is streamed.
CE_C8 ==
    \A c \in Conns :
        (/\ pc[c] = "done"
         /\ sock_out[c] = wlog[c]
         /\ Find(sock_out[c], "Content-Length: ") > 0
         /\ Stat(fs, file[c].path).kind # "dir") =>
            Len(BodyOf(sock_out[c])) = DeclaredLength(sock_out[c])

\* C9 (as claimed): every response with an empty body is a status line and
\* the blank line only.
CE_C9 ==
    \A c \in Conns :
        (pc[c] = "done" /\ wlog[c] # "" /\ BodyOf(wlog[c]) = "") =>
            StatusLineOnly(wlog[c])

\* C9 (amended): the 404 and 201 responses and the 200 response of "/" are a
\* status line and the blank line only; the 200 responses of /user-agent,
\* /echo/ and GET /files with an empty body still carry Content-Type and
\* Content-Length: 0.
THM_C9 ==
    \A c \in Conns :
        (pc[c] = "done" /\ wlog[c] # "" /\ BodyOf(wlog[c]) = "") =>
            IF request[c].path = "/" \/ ~HasPrefix(wlog[c], "HTTP/1.1 200 OK\r\n")
            THEN /\ StatusLineOnly(wlog[c])
                 /\ wlog[c] \in { "HTTP/1.1 200 OK\r\n\r\n",
                                  "HTTP/1.1 201 CREATED\r\n\r\n",
                                  "HTTP/1.1 404 NOT FOUND\r\n\r\n" }
            ELSE /\ request[c].path = "/user-agent"
                    \/ HasPrefix(request[c].path, "/echo/")
                    \/ HasPrefix(request[c].path, "/files/")
                 /\ wlog[c] \in
                      { "HTTP/1.1 200 OK\r\nContent-Type: text/plain\r\nContent-Length: 0\r\n\r\n",
                        "HTTP/1.1 200 OK\r\nContent-Type: application/octet-stream\r\nContent-Length: 0\r\n\r\n" }

\* Both kinds have been written: the bare 200 of "/" and the 200 of
\* /user-agent without a User-Agent header.
W_C9 ==
    \E c \in Conns :
        /\ pc[c] = "done"
        /\ request[c].path = "/user-agent"
        /\ wlog[c] # "" /\ BodyOf(wlog[c]) = ""
        /\ ~StatusLineOnly(wlog[c])

\* C10 (as claimed): the drain loop ends at the first try_read that returns
\* zero bytes or would block, and the 201 response is written next.
CE_C10 ==
    \A c \in Conns :
        try_result[c] \in {"Ok0", "WouldBlock"} =>
            \/ pc[c] = "write" /\ wbuf[c] = "HTTP/1.1 201 CREATED\r\n\r\n"
            \/ pc[c] = "done" /\ wlog[c] = "HTTP/1.1 201 CREATED\r\n\r\n"

\* A message whose fields are valid UTF-8 and whose path has no space: the
\* grammar of the request line holds for it.
CleanFields(msg) ==
    /\ IsUtf8(msg.path) /\ ~HasChar(msg.path, " ")
    /\ \A i \in 1..Len(msg.hdrs) : IsUtf8(msg.hdrs[i].name) /\ IsUtf8(msg.hdrs[i].value)

\* C11 (as claimed): a well-formed request received in one read parses, and
\* the Request holds its method, path, version, its headers in wire order and,
\* as body, exactly the bytes received after the blank line.
CE_C11 ==
    \A c \in Conns :
        (Parsable(c) /\ CleanFields(Sent(c))) =>
            /\ read_result[c] = "ok"
            /\ request[c] = [method |-> Sent(c).method, path |-> Sent(c).path,
                             version |-> "HTTP/1.1", headers |-> Sent(c).hdrs,
                             content |-> Sent(c).body]

\* C12 (as claimed): a request without headers parses with an empty header
\* list and every byte after the first blank line is body, whatever the body
\* holds.
CE_C12 ==
    \A c \in Conns :
        (Parsable(c) /\ CleanFields(Sent(c)) /\ Sent(c).hdrs = <<>>) =>
            /\ read_result[c] = "ok"
            /\ request[c].headers = <<>>
            /\ HasPrefix(request[c].content, Sent(c).body)

\* C14 (as claimed): a field that is not valid UTF-8 ends read_request with
\* an error value, never with a panic of the task.
CE_C14 ==
    \A c \in Conns :
        (WholeInFirstRead(c) /\ Sent(c).wf /\ ~CleanFields(Sent(c))) =>
            /\ read_result[c] # "panic"
            /\ pc[c] # "panicked"

\* C19 (as claimed): the method of a parsed Request is GET or POST, its
\* version is HTTP/1.1, and its path is not empty and starts with "/".
CE_C19 ==
    \A c \in Conns :
        read_result[c] = "ok" =>
            /\ request[c].method \in {"GET", "POST"}
            /\ request[c].version = "HTTP/1.1"
            /\ request[c].path # ""
            /\ HasPrefix(request[c].path, "/")

\* C13 (as claimed): when a file operation of a /files request fails before
\* any response byte was sent, the only response written is the 404; a POST
\* whose file write failed is never answered 201.
CE_C13 ==
    \A c \in Conns :
        (pc[c] = "done" /\ file_error[c]) => wlog[c] = "HTTP/1.1 404 NOT FOUND\r\n\r\n"

\* C15 (as claimed): a failed socket read in the drain loop of POST ends the
\* loop and the handling of the connection: the read is not tried again.
CE_C15 ==
    \A c \in Conns :
        try_result[c] = "Err" => pc[c] \notin {"drain", "post_write"}

\* The task of connection c has handed bytes of a response to the socket, or
\* is at the write that does.
Responding(c) == wlog[c] # "" \/ pc[c] = "write"

\* The task of connection c is inside handle_files.
InHandleFiles(c) ==
    pc[c] \in {"get_metadata", "get_open", "get_read", "post_create", "post_write", "drain"}

\* The 201 of connection c is written or is the write the task is at.
Responding201(c) ==
    \/ pc[c] = "write" /\ wbuf[c] = "HTTP/1.1 201 CREATED\r\n\r\n"
    \/ wlog[c] = "HTTP/1.1 201 CREATED\r\n\r\n"

SequencedC16 ==
    \A c \in Conns :
        /\ (Responding(c) \/ InHandleFiles(c)) =>
                /\ read_result[c] = "ok"
                /\ request[c].method \in {"GET", "POST"}
        /\ InHandleFiles(c) => HasPrefix(request[c].path, "/files/")
        /\ Responding201(c) =>
                /\ request[c].method = "POST"
                /\ Stat(fs, file[c].path).kind = "file"
                /\ fbuf[c] = ""
                /\ try_result[c] = "Ok0"
                /\ tosend[c] = <<>> /\ inbuf[c] = ""
        /\ pc[c] = "done" => pc'[c] = "done"
        /\ read_result[c] # "none" =>
                /\ read_result'[c] = read_result[c]
                /\ request'[c] = request[c]
                /\ nread'[c] = nread[c]
        /\ pc[c] = "done" => wlog'[c] = wlog[c]

\* C16: on every connection nothing is written and handle_files is not
\* entered before the one read and its parse have succeeded; the 201 is
\* written only after the file was created, every byte the client sent was
\* handed to a file write and the drain loop ended; the request is read and
\* parsed once, and after the response the task has ended for good, also when
\* further request bytes are pending on the connection.
THM_C16 == [][SequencedC16]_vars

\* A second request is pending on the connection when the task has ended
\* after answering the first.
W_C16 ==
    \E c \in Conns :
        /\ pc[c] = "done"
        /\ Sent(c).path = "/"
        /\ inbuf[c] = "GET /echo/second HTTP/1.1\r\n\r\n"
        /\ wlog[c] = "HTTP/1.1 200 OK\r\n\r\n"

\* Connection c holds a parsed POST to /files/ and a directory is configured.
PostsFile(c) ==
    /\ read_result[c] = "ok"
    /\ request[c].method = "POST"
    /\ HasPrefix(request[c].path, "/files/")
    /\ directory.some

\* The step changes the file system at path p and nowhere else.
TouchesOnly(p) ==
    \A q \in (DOMAIN fs \cup DOMAIN fs') \ {p} :
        q \in DOMAIN fs /\ q \in DOMAIN fs' /\ fs'[q] = fs[q]

FrameC20 ==
    fs' # fs =>
        \E c \in Conns :
            /\ PostsFile(c)
            /\ pc[c] \in {"post_create", "post_write"}
            /\ TouchesOnly(directory.v \o "/" \o Drop(request[c].path, 7))

\* C20: a step changes the file system only when it is the create or a write
\* of a parsed POST whose path starts with /files/ while a directory is
\* configured, and then only at <directory>/<suffix>; parse failures, other
\* routes, /files/ without a directory and every GET change no file.
THM_C20 == [][FrameC20]_vars

\* A POST has replaced an existing file and nothing else has changed.
W_C20 ==
    \E c \in Conns :
        /\ pc[c] = "done"
        /\ PostsFile(c)
        /\ request[c].path = "/files/foo.txt"
        /\ fs[BASE \o "/foo.txt"] # InitFiles[BASE \o "/foo.txt"]
        /\ \A q \in DOMAIN InitFiles \ {BASE \o "/foo.txt"} : fs[q] = InitFiles[q]

\* Every task has ended and no file write failed.
AllDone == \A c \in Conns : client[c].present => (pc[c] = "done" /\ ~file_error[c])

\* The connections that hold a parsed POST.
Posters == {c \in Conns : client[c].present /\ request[c].method = "POST"}

\* What foo.txt holds after the connections were handled one after another,
\* in either order: what the last POST wrote, or what it held at the start.
SerialFiles ==
    IF Posters = {} THEN {InitFiles[BASE \o "/foo.txt"].data}
    ELSE {request[c].content : c \in Posters}

\* What a GET of foo.txt is answered when the connections are handled one
\* after another: the file as it was at the start or as a POST left it.
SerialGets ==
    {FileHeader(Len(d)) \o d :
        d \in {InitFiles[BASE \o "/foo.txt"].data} \cup {request[c].content : c \in Posters}}

\* C17 (as claimed): however the tasks of two connections interleave, the
\* file is left as by handling them one after another, and a GET is answered
\* with the old or the new contents in full.
CE_C17 ==
    AllDone =>
        /\ fs[BASE \o "/foo.txt"].data \in SerialFiles
        /\ \A c \in Conns :
              (client[c].present /\ request[c].method = "GET") => wlog[c] \in SerialGets

\* The whole request of connection c is in the socket and its task waits in
\* read_request.
RequestWaiting(c) ==
    /\ pc[c] = "read"
    /\ ~Spinning(c)
    /\ tosend[c] = <<>>
    /\ inbuf[c] # ""

\* C18 (as claimed): while other connections are stalled, a connection
\* whose complete request has arrived is eventually read and handled.
CE_C18 ==
    \A c \in Conns : RequestWaiting(c) ~> (pc[c] # "read")

====
